---- MODULE Spec2Model ----
(***************************************************************************)
(* BracketPair: the per-document decoration engine (DocumentDecoration)    *)
(* and the configuration it is built from (Settings).                      *)
(*                                                                         *)
(* JavaScript values are tagged records [t, v]; a JavaScript string is a   *)
(* sequence of characters, so that .length, [i] and split() are computed.  *)
(* Lines, columns and array positions are 0-based as in the source; TLA+   *)
(* sequences are 1-based, so array element i is seq[i + 1].                *)
(***************************************************************************)
EXTENDS Integers, Sequences, FiniteSets, TLC

\* ---- bounds of the model ------------------------------------------------
MaxText == 3        \* longest document text (characters) of the editing session
MatchLen == 3       \* longest document text of the one-pass matching runs
MaxCursors == 2     \* most content changes carried by one edit notification
MaxTokens == 2      \* longest token array given to the position mapper on its own

\* Number.POSITIVE_INFINITY as a number beyond every line index of the model
Infinity == 1000

VARIABLES
    configuration,                 \* workspace configuration "bracketPairColorizer"
    settings,                      \* the Settings instance, or the error its constructor threw
    text,                          \* document.getText()
    visibleTextEditors,            \* TRUE iff some visible editor shows the document
    lines,                         \* DocumentDecoration.lines: TextLine[]
    lineToUpdateWhenTimeoutEnds,   \* lowest dirty line marker
    updateDecorationTimeout,       \* the handle of the last timer set; 0 is undefined
    timers,                        \* the host's pending timeouts (their handles)
    decorations,                   \* what the editor currently shows: Map color -> ranges
    lastPass,                      \* the updateDecorations call of the latest step, if it made
                                   \* one: outcome, marker it started from, setDecorations calls
    history,                       \* what happened since the last completed pass (see Remember)
    tokenArray,                    \* a token array given to the position mapper on its own
    cursor                         \* the cursor and the positions the mapper made of it

vars == <<configuration, settings, text, visibleTextEditors, lines,
          lineToUpdateWhenTimeoutEnds, updateDecorationTimeout, timers, decorations,
          lastPass, history, tokenArray, cursor>>

\* ---- JavaScript values ----------------------------------------------------
Str(s) == [t |-> "string", v |-> s]
Arr(a) == [t |-> "array", v |-> a]
Num(n) == [t |-> "number", v |-> n]
Bool(b) == [t |-> "boolean", v |-> b]
Undefined == [t |-> "undefined", v |-> <<>>]

IsString(x) == x.t = "string"
IsArray(x) == x.t = "array"
\* x[i] of a string or an array (0-based); undefined out of range or on other values
At(x, i) ==
    IF x.t = "array" /\ i >= 0 /\ i < Len(x.v) THEN x.v[i + 1]
    ELSE IF x.t = "string" /\ i >= 0 /\ i < Len(x.v) THEN Str(<<x.v[i + 1]>>)
    ELSE Undefined

Min(a, b) == IF a <= b THEN a ELSE b
Max(a, b) == IF a >= b THEN a ELSE b

\* a mutant: nothing is removed
SpliceNothing(arr, start, deleteCount) == arr

\* Array.prototype.splice(start, deleteCount) with start >= 0: the array that remains
Splice(arr, start, deleteCount) ==
    LET actualStart == Min(start, Len(arr))
        actualDelete == Min(Max(deleteCount, 0), Len(arr) - actualStart)
    IN SubSeq(arr, 1, actualStart) \o SubSeq(arr, actualStart + actualDelete + 1, Len(arr))

\* String.prototype.split("\n")
RECURSIVE Split(_)
Split(content) ==
    IF \E k \in 1..Len(content) : content[k] = "\n"
    THEN LET k == CHOOSE j \in 1..Len(content) :
                    /\ content[j] = "\n"
                    /\ \A i \in 1..(j - 1) : content[i] # "\n"
         IN <<SubSeq(content, 1, k - 1)>> \o Split(SubSeq(content, k + 1, Len(content)))
    ELSE <<content>>

\* ---- Map<K, V> with insertion order: a sequence of <<key, value>> ----------
MapHas(m, k) == \E i \in 1..Len(m) : m[i][1] = k
MapGet(m, k) == m[CHOOSE i \in 1..Len(m) : m[i][1] = k][2]
MapSet(m, k, val) ==
    IF MapHas(m, k)
    THEN [i \in 1..Len(m) |-> IF m[i][1] = k THEN <<k, val>> ELSE m[i]]
    ELSE Append(m, <<k, val>>)
MapKeys(m) == {m[i][1] : i \in 1..Len(m)}

\* ---- Settings: the constructor (settings.ts) --------------------------------
\* The constructor's display options (activeScopeCSS, scopeLineCSS, gutter and
\* scope-line flags, settings.ts 36-95) are not read by DocumentDecoration and
\* are left out; every field below is validated in the order of the source.
Fail(field, index, message) ==
    [ok |-> FALSE, error |-> [field |-> field, index |-> index, message |-> message]]

\* enum ColorMode { Consecutive, Independent }: (ColorMode as any)[name]
ColorMode(name) ==
    IF name = Str(<<"Consecutive">>) THEN Num(0)
    ELSE IF name = Str(<<"Independent">>) THEN Num(1)
    ELSE Undefined

\* new BracketPair(firstBracket, lastBracket, colors, orphanColor)
BracketPair(openCharacter, closeCharacter, colors, orphanColor) ==
    [openCharacter |-> openCharacter, closeCharacter |-> closeCharacter,
     colors |-> colors, orphanColor |-> orphanColor]

\* matches.sort((a, b) => b.length - a.length), a stable sort
RECURSIVE SortByLengthDesc(_)
SortByLengthDesc(matches) ==
    IF matches = <<>> THEN <<>>
    ELSE LET m == Head(matches)
             rest == SortByLengthDesc(Tail(matches))
             k == Cardinality({i \in 1..Len(rest) : Len(rest[i]) > Len(m)})
         IN SubSeq(rest, 1, k) \o <<m>> \o SubSeq(rest, k + 1, Len(rest))

\* createRegex(bracketPairs, false): the alternatives of the regular expression,
\* every literal escaped so that it matches itself, longest first.
\* escape() calls s.replace, a TypeError on a literal that is no string.
createRegex(bracketPairs) ==
    LET matches == [i \in 1..(2 * Len(bracketPairs)) |->
                        IF i % 2 = 1 THEN bracketPairs[(i + 1) \div 2].openCharacter
                        ELSE bracketPairs[i \div 2].closeCharacter]
    IN IF \E i \in 1..Len(matches) : ~IsString(matches[i])
       THEN Fail("TypeError", 0, "s.replace is not a function")
       ELSE [ok |-> TRUE,
             regex |-> SortByLengthDesc([i \in 1..Len(matches) |-> matches[i].v])]

\* createBracketDecorations(bracketPairs): Map color -> decoration type; a later
\* set() of a color already present keeps its place in the iteration order.
RECURSIVE SetAll(_, _)
SetAll(decorations_, colors) ==
    IF colors = <<>> THEN decorations_
    ELSE SetAll(MapSet(decorations_, Head(colors), [color |-> Head(colors)]), Tail(colors))

RECURSIVE createBracketDecorationsFrom(_, _)
createBracketDecorationsFrom(decorations_, bracketPairs) ==
    IF bracketPairs = <<>> THEN decorations_
    ELSE LET bracketPair == Head(bracketPairs)
         IN createBracketDecorationsFrom(
                SetAll(decorations_, Append(bracketPair.colors, bracketPair.orphanColor)),
                Tail(bracketPairs))

createBracketDecorations(bracketPairs) == createBracketDecorationsFrom(<<>>, bracketPairs)

\* a mutant: the pairs get the palette shifted by one color
ConsecutivePairsShifted(consecutiveSettings) ==
    LET n == Len(consecutiveSettings.v)
        colors == At(consecutiveSettings, n - 2).v
        brackets(index) == At(consecutiveSettings, index)
    IN [ok |-> TRUE,
        bracketPairs |-> [i \in 1..(n - 2) |->
            BracketPair(At(brackets(i - 1), 0), At(brackets(i - 1), 1),
                        Tail(colors) \o <<Head(colors)>>,
                        At(consecutiveSettings, n - 1))]]

\* colorMode === ColorMode.Consecutive branch (settings.ts 121-154)
ConsecutivePairs(consecutiveSettings) ==
    LET n == Len(consecutiveSettings.v)
        orphanColor == At(consecutiveSettings, n - 1)
        colors == At(consecutiveSettings, n - 2)
        brackets(index) == At(consecutiveSettings, index)
        Shaped(index) == IsString(brackets(index)) \/ IsArray(brackets(index))
        Bad(index) == ~Shaped(index) \/ Len(brackets(index).v) # 2
    IN IF ~IsArray(consecutiveSettings)
       THEN Fail("consecutivePairColors", -1, "is not an array")
       ELSE IF n < 3
       THEN Fail("consecutivePairColors", -1, "expected at least 3 parameters")
       ELSE IF ~IsString(orphanColor)
       THEN Fail("consecutivePairColors", n - 1, "is not a string")
       ELSE IF ~IsArray(colors)
       THEN Fail("consecutivePairColors", n - 2, "is not a string[]")
       ELSE IF \E index \in 0..(n - 3) : Bad(index)
       THEN LET index == CHOOSE i \in 0..(n - 3) :
                            Bad(i) /\ \A j \in 0..(i - 1) : ~Bad(j)
            IN IF Shaped(index)
               THEN Fail("consecutivePairColors", index, "requires 2 element")
               ELSE Fail("consecutivePairColors", index,
                         "should be a string or an array of strings")
       ELSE [ok |-> TRUE,
             bracketPairs |-> [i \in 1..(n - 2) |->
                 BracketPair(At(brackets(i - 1), 0), At(brackets(i - 1), 1),
                             colors.v, orphanColor)]]

\* the first check of settings.ts 163-184 that innerArray fails, or "" when it passes
IndependentCheck(innerArray) ==
    LET brackets == At(innerArray, 0)
        colors == At(innerArray, 1)
        orphanColor == At(innerArray, 2)
    IN IF ~IsArray(innerArray) THEN "is not an array"
       ELSE IF ~IsString(brackets) /\ ~IsArray(brackets)
       THEN "[0] is not a string or an array of strings"
       ELSE IF Len(brackets.v) < 2 THEN "[0] needs at least 2 elements"
       ELSE IF ~IsArray(colors) THEN "[1] is not string[]"
       ELSE IF ~IsString(orphanColor) THEN "[2] is not a string"
       ELSE ""

\* the Independent branch (settings.ts 155-188)
IndependentPairs(independentSettings) ==
    LET n == Len(independentSettings.v)
        inner(index) == At(independentSettings, index)
    IN IF ~IsArray(independentSettings)
       THEN Fail("independentPairColors", -1, "is not an array")
       ELSE IF \E index \in 0..(n - 1) : IndependentCheck(inner(index)) # ""
       THEN LET index == CHOOSE i \in 0..(n - 1) :
                            /\ IndependentCheck(inner(i)) # ""
                            /\ \A j \in 0..(i - 1) : IndependentCheck(inner(j)) = ""
            IN Fail("independentPairColors", index, IndependentCheck(inner(index)))
       ELSE [ok |-> TRUE,
             bracketPairs |-> [i \in 1..n |->
                 BracketPair(At(At(inner(i - 1), 0), 0), At(At(inner(i - 1), 0), 1),
                             At(inner(i - 1), 1).v, At(inner(i - 1), 2))]]

\* a mutant: the color mode read from the configuration is not kept
ConstructorAlwaysConsecutive(conf) ==
    LET pairs == IF ColorMode(conf.colorMode) = Num(0)
                 THEN ConsecutivePairs(conf.consecutivePairColors)
                 ELSE IndependentPairs(conf.independentPairColors)
    IN [ok |-> TRUE,
        bracketPairs |-> pairs.bracketPairs,
        colorMode |-> "Consecutive",
        forceUniqueOpeningColor |-> conf.forceUniqueOpeningColor.v,
        forceIterationColorCycle |-> conf.forceIterationColorCycle.v,
        timeOutLength |-> conf.timeOut.v,
        regexNonExact |-> createRegex(pairs.bracketPairs).regex,
        bracketDecorations |-> createBracketDecorations(pairs.bracketPairs),
        isDisposed |-> FALSE]

\* new Settings(...): the instance, or the error thrown (settings.ts 97-192)
Constructor(conf) ==
    LET colorMode == ColorMode(conf.colorMode)
        pairs == IF colorMode = Num(0)
                 THEN ConsecutivePairs(conf.consecutivePairColors)
                 ELSE IndependentPairs(conf.independentPairColors)
        regex == createRegex(pairs.bracketPairs)
    IN IF conf.forceUniqueOpeningColor.t # "boolean"
       THEN Fail("forceUniqueOpeningColor", -1, "is not a boolean")
       ELSE IF conf.forceIterationColorCycle.t # "boolean"
       THEN Fail("forceIterationColorCycle", -1, "is not a boolean")
       ELSE IF colorMode.t # "number"
       THEN Fail("colorMode", -1, "enum could not be parsed")
       ELSE IF conf.timeOut.t # "number"
       THEN Fail("timeOutLength", -1, "is not a number")
       ELSE IF ~pairs.ok THEN pairs
       ELSE IF ~regex.ok THEN regex
       ELSE [ok |-> TRUE,
             bracketPairs |-> pairs.bracketPairs,
             colorMode |-> IF colorMode = Num(0) THEN "Consecutive" ELSE "Independent",
             forceUniqueOpeningColor |-> conf.forceUniqueOpeningColor.v,
             forceIterationColorCycle |-> conf.forceIterationColorCycle.v,
             timeOutLength |-> conf.timeOut.v,
             regexNonExact |-> regex.regex,
             bracketDecorations |-> createBracketDecorations(pairs.bracketPairs),
             isDisposed |-> FALSE]

\* ---- the tokenizer (prismjs, external) ---------------------------------------
\* prism.tokenize(text, grammar): an array of strings and Tokens. Every character
\* the grammar knows as punctuation is a Token of type "punctuation"; the text
\* between two of them is one plain string.
Punctuation == {"(", ")", "[", "]", ";"}

Token(type, content) == [t |-> "token", type |-> type, content |-> content]

RECURSIVE Tokenize(_)
Tokenize(s) ==
    IF s = <<>> THEN <<>>
    ELSE IF Head(s) \in Punctuation
    THEN <<Token("punctuation", Str(<<Head(s)>>))>> \o Tokenize(Tail(s))
    ELSE LET k == CHOOSE j \in 1..Len(s) :
                    /\ \A i \in 1..j : s[i] \notin Punctuation
                    /\ (j = Len(s) \/ s[j + 1] \in Punctuation)
         IN <<Str(SubSeq(s, 1, k))>> \o Tokenize(SubSeq(s, k + 1, Len(s)))

\* ---- Position Mapper (documentDecoration.ts 124-185) -------------------------
\* content.match(regex): some alternative of the regular expression occurs in content
Contains(content, literal) ==
    \E k \in 0..(Len(content) - Len(literal)) :
        SubSeq(content, k + 1, k + Len(literal)) = literal

Match(content, regex) == \E i \in 1..Len(regex) : Contains(content, regex[i])

FoundBracket(lineIndex, charIndex, content) ==
    [range |-> [line |-> lineIndex, start |-> charIndex, end |-> charIndex + Len(content)],
     content |-> content]

\* a mutant: the column is not reset after a line break
parseStringNoReset(content, lineIndex, charIndex) ==
    LET split == Split(content)
    IN IF Len(split) > 1
       THEN [lineIndex |-> lineIndex + Len(split) - 1,
             charIndex |-> charIndex + Len(split[Len(split)])]
       ELSE [lineIndex |-> lineIndex, charIndex |-> charIndex + Len(content)]

parseString(content, lineIndex, charIndex) ==
    LET split == Split(content)
    IN IF Len(split) > 1
       THEN [lineIndex |-> lineIndex + Len(split) - 1,
             charIndex |-> Len(split[Len(split)])]
       ELSE [lineIndex |-> lineIndex, charIndex |-> charIndex + Len(content)]

\* a mutant: the test of the line against the marker is forgotten
isBracketIgnoringMarker(this, token, lineIndex) ==
    /\ token.type = "punctuation"
    /\ Match(token.content.v, this.settings.regexNonExact)

\* a mutant: the brackets of the marker's own line are passed over
isBracketAboveMarker(this, token, lineIndex) ==
    /\ token.type = "punctuation"
    /\ lineIndex > this.lineToUpdateWhenTimeoutEnds
    /\ Match(token.content.v, this.settings.regexNonExact)

\* parseToken's test of a leaf: a punctuation token, at or below the lowest
\* dirty line, whose text matches. The source reads settings.regexPattern; the
\* only pattern Settings builds is regexNonExact, which is what is matched here.
isBracket(this, token, lineIndex) ==
    /\ token.type = "punctuation"
    /\ lineIndex >= this.lineToUpdateWhenTimeoutEnds
    /\ Match(token.content.v, this.settings.regexNonExact)

\* `at' is the cursor and the positions pushed so far; `this' is the DocumentDecoration
RECURSIVE parseToken(_, _, _)
RECURSIVE parseTokenOrStringArray(_, _, _)
parseToken(this, token, at) ==
    IF IsString(token.content)
    THEN LET content == token.content.v
             moved == parseString(content, at.lineIndex, at.charIndex)
             found == isBracket(this, token, at.lineIndex)
         IN [lineIndex |-> moved.lineIndex, charIndex |-> moved.charIndex,
             positions |-> IF found
                           THEN Append(at.positions,
                                       FoundBracket(at.lineIndex, at.charIndex, content))
                           ELSE at.positions]
    ELSE IF IsArray(token.content)
    THEN parseTokenOrStringArray(this, token.content.v, at)
    ELSE IF IsArray(token.content.content)
    THEN parseTokenOrStringArray(this, token.content.content.v, at)
    ELSE parseToken(this, token.content, at)

parseTokenOrStringArray(this, tokenized, at) ==
    IF tokenized = <<>> THEN at
    ELSE LET token == Head(tokenized)
             next == IF token.t = "token"
                     THEN parseToken(this, token, at)
                     ELSE LET moved == parseString(token.v, at.lineIndex, at.charIndex)
                          IN [lineIndex |-> moved.lineIndex, charIndex |-> moved.charIndex,
                              positions |-> at.positions]
         IN parseTokenOrStringArray(this, Tail(tokenized), next)

\* ---- TextLine: Bracket Matcher + Color Assigner (design 4.3) ------------------
\* One shared stack in Consecutive mode, one stack per pair definition in
\* Independent mode.
NumStacks(settings_) ==
    IF settings_.colorMode = "Consecutive" THEN 1 ELSE Len(settings_.bracketPairs)

StackOf(settings_, definition) ==
    IF settings_.colorMode = "Consecutive" THEN 1 ELSE definition

EmptyContext(settings_) == [stacks |-> [k \in 1..NumStacks(settings_) |-> <<>>]]

\* new TextLine(text, settings, index, context)
TextLine(index, context) ==
    [index |-> index, context |-> context, brackets |-> <<>>, colorRanges |-> <<>>]

copyMultilineContext(line) == line.context

\* the first definition one of whose literals is the text; 0 when there is none
ResolveDefinition(settings_, content) ==
    LET Is(d) == \/ settings_.bracketPairs[d].openCharacter.v = content
                 \/ settings_.bracketPairs[d].closeCharacter.v = content
    IN IF \E d \in 1..Len(settings_.bracketPairs) : Is(d)
       THEN CHOOSE d \in 1..Len(settings_.bracketPairs) :
                Is(d) /\ \A e \in 1..(d - 1) : ~Is(e)
       ELSE 0

\* palette[(depth - 1 + offset) mod palette.length]
PaletteColor(palette, depth, offset) ==
    IF Len(palette) = 0 THEN Undefined
    ELSE palette[((depth - 1 + offset) % Len(palette)) + 1]

\* the color of an open bracket pushed at `depth' (stack size after the push)
OpenColor(settings_, definition, depth) ==
    PaletteColor(settings_.bracketPairs[definition].colors, depth,
                 IF settings_.colorMode = "Consecutive" /\ settings_.forceUniqueOpeningColor
                 THEN definition - 1 ELSE 0)

\* the color of a close bracket that pops `entry' from a stack of size `depth'
CloseColor(settings_, definition, entry, depth) ==
    IF settings_.colorMode = "Consecutive" /\ settings_.forceIterationColorCycle
    THEN PaletteColor(settings_.bracketPairs[definition].colors, depth, 0)
    ELSE entry.color

\* a close bracket is an orphan on an empty stack, and (shared stack) on an
\* entry of another definition; the stack is then left as it is
IsOrphanClose(settings_, definition, stack) ==
    \/ stack = <<>>
    \/ settings_.colorMode = "Consecutive" /\ stack[Len(stack)].definition # definition

AddRange(colorRanges, color, range) ==
    MapSet(colorRanges, color,
           (IF MapHas(colorRanges, color) THEN MapGet(colorRanges, color) ELSE <<>>)
               \o <<range>>)

\* TextLine.addBracket(found)
addBracket(settings_, line, found) ==
    LET definition == ResolveDefinition(settings_, found.content)
        pair == settings_.bracketPairs[definition]
        k == StackOf(settings_, definition)
        stack == line.context.stacks[k]
        at == <<found.range.line, found.range.start>>
    IN IF definition = 0 THEN line
       ELSE IF pair.openCharacter.v = found.content
       THEN LET color == OpenColor(settings_, definition, Len(stack) + 1)
                entry == [definition |-> definition, color |-> color, occurrence |-> at]
            IN [line EXCEPT
                   !.context.stacks[k] = Append(stack, entry),
                   !.brackets = Append(@, [range |-> found.range, content |-> found.content,
                                           definition |-> definition, role |-> "open",
                                           color |-> color, orphan |-> FALSE,
                                           partner |-> <<>>]),
                   !.colorRanges = AddRange(@, color, found.range)]
       ELSE IF IsOrphanClose(settings_, definition, stack)
       THEN [line EXCEPT
                !.brackets = Append(@, [range |-> found.range, content |-> found.content,
                                        definition |-> definition, role |-> "close",
                                        color |-> pair.orphanColor, orphan |-> TRUE,
                                        partner |-> <<>>]),
                !.colorRanges = AddRange(@, pair.orphanColor, found.range)]
       ELSE LET entry == stack[Len(stack)]
                color == CloseColor(settings_, definition, entry, Len(stack))
            IN [line EXCEPT
                   !.context.stacks[k] = SubSeq(stack, 1, Len(stack) - 1),
                   !.brackets = Append(@, [range |-> found.range, content |-> found.content,
                                           definition |-> definition, role |-> "close",
                                           color |-> color, orphan |-> FALSE,
                                           partner |-> entry.occurrence]),
                   !.colorRanges = AddRange(@, color, found.range)]

\* ---- DocumentDecoration (documentDecoration.ts) -------------------------------
\* a mutant: a new line starts from empty stacks, not from the line before it
RECURSIVE pushLinesNoContext(_, _, _)
pushLinesNoContext(lines_, i, index) ==
    IF i > index THEN lines_
    ELSE LET previousLine == lines_[Len(lines_)]
             stacks == copyMultilineContext(previousLine).stacks
             newLine == TextLine(i, [stacks |-> [k \in DOMAIN stacks |-> <<>>]])
         IN pushLinesNoContext(Append(lines_, newLine), i + 1, index)

\* getLine(index, document), the loop: for (i = lines.length; i <= index; i++)
RECURSIVE pushLines(_, _, _)
pushLines(lines_, i, index) ==
    IF i > index THEN lines_
    ELSE LET previousLine == lines_[Len(lines_)]
             newLine == TextLine(i, copyMultilineContext(previousLine))
         IN pushLines(Append(lines_, newLine), i + 1, index)

\* a mutant: only the line asked for is built, not the lines before it
getLineNoFill(settings_, lines_, index) ==
    IF index < Len(lines_) THEN [lines |-> lines_, returned |-> index]
    ELSE LET context == IF Len(lines_) = 0 THEN EmptyContext(settings_)
                        ELSE copyMultilineContext(lines_[Len(lines_)])
             pushed == Append(lines_, TextLine(index, context))
         IN [lines |-> pushed, returned |-> Len(pushed) - 1]

\* getLine(index, document): the cache after the call and the place in it of
\* the line returned (lines[index], or lines[lines.length - 1] after growing)
getLine(settings_, lines_, index) ==
    IF index < Len(lines_) THEN [lines |-> lines_, returned |-> index]
    ELSE LET first == IF Len(lines_) = 0
                      THEN <<TextLine(0, EmptyContext(settings_))>> ELSE lines_
             pushed == pushLines(first, Len(first), index)
         IN [lines |-> pushed, returned |-> Len(pushed) - 1]

\* positions.forEach: getLine(element.range.start.line).addBracket(element)
RECURSIVE addPositions(_, _, _)
addPositions(settings_, lines_, positions) ==
    IF positions = <<>> THEN lines_
    ELSE LET element == Head(positions)
             got == getLine(settings_, lines_, element.range.line)
             currentLine == got.returned + 1
         IN addPositions(settings_,
                         [got.lines EXCEPT
                             ![currentLine] = addBracket(settings_, @, element)],
                         Tail(positions))

\* colorDecorations, first loop: all lines' colorRanges reduced into one Map
RECURSIVE mergeRanges(_, _)
mergeRanges(colorMap, colorRanges) ==
    IF colorRanges = <<>> THEN colorMap
    ELSE LET color == Head(colorRanges)[1]
             ranges == Head(colorRanges)[2]
         IN mergeRanges(IF MapHas(colorMap, color)
                        THEN MapSet(colorMap, color, MapGet(colorMap, color) \o ranges)
                        ELSE MapSet(colorMap, color, ranges),
                        Tail(colorRanges))

RECURSIVE reduceLines(_, _)
reduceLines(colorMap, lines_) ==
    IF lines_ = <<>> THEN colorMap
    ELSE reduceLines(mergeRanges(colorMap, Head(lines_).colorRanges), Tail(lines_))

\* a mutant: a color without ranges is passed over, not set to []
RECURSIVE setDecorationsCallsUsedOnly(_, _)
setDecorationsCallsUsedOnly(bracketDecorations, colorMap) ==
    IF bracketDecorations = <<>> THEN <<>>
    ELSE LET color == Head(bracketDecorations)[1]
             rest == setDecorationsCallsUsedOnly(Tail(bracketDecorations), colorMap)
         IN IF color = Str(<<>>) \/ ~MapHas(colorMap, color) THEN rest
            ELSE << <<color, MapGet(colorMap, color)>> >> \o rest

\* colorDecorations, second loop: the setDecorations calls, in the order of
\* settings.bracketDecorations; the color "" is passed over
RECURSIVE setDecorationsCalls(_, _)
setDecorationsCalls(bracketDecorations, colorMap) ==
    IF bracketDecorations = <<>> THEN <<>>
    ELSE LET color == Head(bracketDecorations)[1]
             rest == setDecorationsCalls(Tail(bracketDecorations), colorMap)
         IN IF color = Str(<<>>) THEN rest
            ELSE << <<color, IF MapHas(colorMap, color) THEN MapGet(colorMap, color)
                               ELSE <<>> >> >> \o rest

\* editor.setDecorations(decoration, ranges) replaces what the editor shows for it
RECURSIVE applyCalls(_, _)
applyCalls(shown, calls) ==
    IF calls = <<>> THEN shown
    ELSE applyCalls(MapSet(shown, Head(calls)[1], Head(calls)[2]), Tail(calls))

\* the steps of a pass, as the pass takes them: the step and the marker's value at it
Step(this, name) ==
    [this EXCEPT !.lastPass.steps = Append(@, <<name, this.lineToUpdateWhenTimeoutEnds>>)]

\* a mutant: the Map keeps the first line's own array for a color (no slice()),
\* so the ranges of the later lines are pushed into that line's colorRanges
colorDecorationsNoSlice(this) ==
    LET colorMap == reduceLines(<<>>, this.lines)
        calls == setDecorationsCalls(this.settings.bracketDecorations, colorMap)
        First(color) == CHOOSE i \in 1..Len(this.lines) :
                            /\ MapHas(this.lines[i].colorRanges, color)
                            /\ \A j \in 1..(i - 1) : ~MapHas(this.lines[j].colorRanges, color)
        Aliased(i) == [e \in 1..Len(this.lines[i].colorRanges) |->
                          LET color == this.lines[i].colorRanges[e][1]
                          IN IF First(color) = i THEN <<color, MapGet(colorMap, color)>>
                             ELSE this.lines[i].colorRanges[e]]
    IN [this EXCEPT
           !.lines = [i \in 1..Len(this.lines) |->
                          [this.lines[i] EXCEPT !.colorRanges = Aliased(i)]],
           !.decorations = applyCalls(@, calls),
           !.lastPass = [outcome |-> "completed",
                         from |-> this.lineToUpdateWhenTimeoutEnds, calls |-> calls,
                         steps |-> Step(Step(this, "aggregate"), "render").lastPass.steps
                                       \o << <<"reset", Infinity>> >>],
           !.lineToUpdateWhenTimeoutEnds = Infinity]

colorDecorations(this) ==
    LET colorMap == reduceLines(<<>>, this.lines)
        aggregated == Step(this, "aggregate")
        calls == setDecorationsCalls(aggregated.settings.bracketDecorations, colorMap)
        rendered == Step([aggregated EXCEPT !.decorations = applyCalls(@, calls)], "render")
    IN [rendered EXCEPT
           !.lineToUpdateWhenTimeoutEnds = Infinity,
           !.lastPass = [outcome |-> "completed",
                         from |-> this.lineToUpdateWhenTimeoutEnds, calls |-> calls,
                         steps |-> Append(rendered.lastPass.steps, <<"reset", Infinity>>)]]

\* a mutant: a tokenizer failure is taken as "no tokens" and the pass goes on
updateDecorationsFailureAsEmpty(this, tokenizer) ==
    LET lineNumber == this.lineToUpdateWhenTimeoutEnds
        amountToRemove == Len(this.lines) - lineNumber
        spliced == [this EXCEPT !.lines = Splice(@, lineNumber, amountToRemove)]
        tokenized == IF tokenizer = "tokens" THEN Tokenize(this.text) ELSE <<>>
        positions == parseTokenOrStringArray(this, tokenized,
                         [lineIndex |-> 0, charIndex |-> 0, positions |-> <<>>]).positions
        done == colorDecorations(
                    [spliced EXCEPT !.lines = addPositions(this.settings, @, positions)])
    IN IF ~this.visibleTextEditors
       THEN [this EXCEPT !.lastPass = [outcome |-> "noEditors", from |-> lineNumber,
                                       calls |-> <<>>, steps |-> <<>>]]
       ELSE IF tokenizer # "tokens"
       THEN [done EXCEPT !.lastPass.outcome = tokenizer]
       ELSE done

\* a mutant: a pass that the tokenizer fails resets the marker
updateDecorationsAbortResets(this, tokenizer) ==
    LET lineNumber == this.lineToUpdateWhenTimeoutEnds
        amountToRemove == Len(this.lines) - lineNumber
        spliced == Step([this EXCEPT !.lines = Splice(@, lineNumber, amountToRemove)],
                        "truncate")
        tokenized == Tokenize(spliced.text)
        tried == Step(spliced, "tokenize")
        positions == parseTokenOrStringArray(tried, tokenized,
                         [lineIndex |-> 0, charIndex |-> 0, positions |-> <<>>]).positions
        mapped == Step(tried, "map")
        updated == Step([mapped EXCEPT !.lines = addPositions(mapped.settings, @, positions)],
                        "update")
    IN IF ~this.visibleTextEditors
       THEN [this EXCEPT !.lastPass = [outcome |-> "noEditors", from |-> lineNumber,
                                       calls |-> <<>>, steps |-> <<>>]]
       ELSE IF tokenizer # "tokens"
       THEN [tried EXCEPT !.lineToUpdateWhenTimeoutEnds = Infinity,
                          !.lastPass = [outcome |-> tokenizer, from |-> lineNumber,
                                        calls |-> <<>>, steps |-> tried.lastPass.steps]]
       ELSE colorDecorations(updated)

\* a mutant: the marker is reset as soon as the cache is truncated
updateDecorationsResetFirst(this, tokenizer) ==
    LET lineNumber == this.lineToUpdateWhenTimeoutEnds
        amountToRemove == Len(this.lines) - lineNumber
        spliced == Step([this EXCEPT !.lines = Splice(@, lineNumber, amountToRemove)],
                        "truncate")
        reset == [spliced EXCEPT !.lineToUpdateWhenTimeoutEnds = Infinity]
        tokenized == Tokenize(reset.text)
        tried == Step(reset, "tokenize")
        positions == parseTokenOrStringArray(tried, tokenized,
                         [lineIndex |-> 0, charIndex |-> 0, positions |-> <<>>]).positions
        mapped == Step(tried, "map")
        updated == Step([mapped EXCEPT !.lines = addPositions(mapped.settings, @, positions)],
                        "update")
        done == colorDecorations(updated)
    IN IF ~this.visibleTextEditors
       THEN [this EXCEPT !.lastPass = [outcome |-> "noEditors", from |-> lineNumber,
                                       calls |-> <<>>, steps |-> <<>>]]
       ELSE IF tokenizer # "tokens"
       THEN [tried EXCEPT !.lastPass = [outcome |-> tokenizer, from |-> lineNumber,
                                        calls |-> <<>>, steps |-> tried.lastPass.steps]]
       ELSE [done EXCEPT !.lastPass.from = lineNumber]

\* updateDecorations(); `tokenizer' is what prism.tokenize does in this call:
\* "tokens" (an array), "null" (a falsy result) or "throw"
updateDecorations(this, tokenizer) ==
    LET lineNumber == this.lineToUpdateWhenTimeoutEnds
        amountToRemove == Len(this.lines) - lineNumber
        spliced == Step([this EXCEPT !.lines = Splice(@, lineNumber, amountToRemove)],
                        "truncate")
        tokenized == Tokenize(spliced.text)
        tried == Step(spliced, "tokenize")
        positions == parseTokenOrStringArray(tried, tokenized,
                         [lineIndex |-> 0, charIndex |-> 0, positions |-> <<>>]).positions
        mapped == Step(tried, "map")
        updated == Step([mapped EXCEPT !.lines = addPositions(mapped.settings, @, positions)],
                        "update")
    IN IF ~this.visibleTextEditors
       THEN [this EXCEPT !.lastPass = [outcome |-> "noEditors", from |-> lineNumber,
                                       calls |-> <<>>, steps |-> <<>>]]
       ELSE IF tokenizer # "tokens"
       THEN [tried EXCEPT !.lastPass = [outcome |-> tokenizer, from |-> lineNumber,
                                        calls |-> <<>>, steps |-> tried.lastPass.steps]]
       ELSE colorDecorations(updated)

\* clearTimeout(handle): the timer is no longer pending; clearing a timer that
\* has fired changes nothing
clearTimeout(timers_, handle) == timers_ \ {handle}

\* setTimeout(callback, delay) returns a new Timer object: a handle that is not
\* the one held so far when that one has just been cancelled, and is not pending
setTimeout(timers_, cancelled) ==
    CHOOSE h \in 1..(Cardinality(timers_ \cup cancelled) + 1) :
        /\ h \notin timers_ \cup cancelled
        /\ \A g \in 1..(h - 1) : g \in timers_ \cup cancelled

\* a mutant: a pending timer is cleared and no new one is set
triggerUpdateDecorationsCancelOnly(this, tokenizer) ==
    IF this.settings.isDisposed THEN this
    ELSE IF this.settings.timeOutLength > 0
    THEN LET held == this.updateDecorationTimeout
         IN IF held # 0 /\ held \in this.timers
            THEN [this EXCEPT !.timers = clearTimeout(this.timers, held)]
            ELSE LET handle == setTimeout(this.timers, {})
                 IN [this EXCEPT !.timers = this.timers \cup {handle},
                                 !.updateDecorationTimeout = handle]
    ELSE updateDecorations(this, tokenizer)

\* a mutant: the pending timer is not cleared before the next one is set
triggerUpdateDecorationsNoClear(this, tokenizer) ==
    IF this.settings.isDisposed THEN this
    ELSE IF this.settings.timeOutLength > 0
    THEN LET handle == setTimeout(this.timers, {})
         IN [this EXCEPT !.timers = this.timers \cup {handle},
                         !.updateDecorationTimeout = handle]
    ELSE updateDecorations(this, tokenizer)

\* triggerUpdateDecorations()
triggerUpdateDecorations(this, tokenizer) ==
    IF this.settings.isDisposed THEN this
    ELSE IF this.settings.timeOutLength > 0
    THEN LET held == this.updateDecorationTimeout
             cancelled == IF held # 0 THEN this.timers \cap {held} ELSE {}
             cleared == IF held # 0 THEN clearTimeout(this.timers, held) ELSE this.timers
             handle == setTimeout(cleared, cancelled)
         IN [this EXCEPT !.timers = cleared \cup {handle},
                         !.updateDecorationTimeout = handle]
    ELSE updateDecorations(this, tokenizer)

\* a mutant: only the first change of the notification lowers the marker
updateLowestLineNumberFirstOnly(this, contentChanges) ==
    IF contentChanges = <<>> THEN this
    ELSE [this EXCEPT !.lineToUpdateWhenTimeoutEnds = Min(@, Head(contentChanges))]

\* updateLowestLineNumber(contentChanges); a change is its range.start.line
RECURSIVE updateLowestLineNumber(_, _)
updateLowestLineNumber(this, contentChanges) ==
    IF contentChanges = <<>> THEN this
    ELSE updateLowestLineNumber(
            [this EXCEPT !.lineToUpdateWhenTimeoutEnds = Min(@, Head(contentChanges))],
            Tail(contentChanges))

\* onDidChangeTextDocument(contentChanges)
onDidChangeTextDocument(this, contentChanges, tokenizer) ==
    triggerUpdateDecorations(updateLowestLineNumber(this, contentChanges), tokenizer)

\* Settings.dispose(): every decoration type is disposed, which removes its
\* decorations from the editors, and the Map is cleared
dispose(this) ==
    IF this.settings.isDisposed THEN this
    ELSE [this EXCEPT !.decorations = <<>>,
                      !.settings.bracketDecorations = <<>>,
                      !.settings.isDisposed = TRUE]

\* ---- the session as a state machine --------------------------------------------
NoPass == [outcome |-> "none", from |-> 0, calls |-> <<>>, steps |-> <<>>]

This ==
    [settings |-> settings, text |-> text, visibleTextEditors |-> visibleTextEditors,
     lines |-> lines, lineToUpdateWhenTimeoutEnds |-> lineToUpdateWhenTimeoutEnds,
     updateDecorationTimeout |-> updateDecorationTimeout, timers |-> timers,
     decorations |-> decorations,
     lastPass |-> NoPass]

Ran(new) == new.lastPass.outcome # "none"
Completed(new) == new.lastPass.outcome = "completed"

\* the lowest of the starting lines of a notification's changes
LowestOf(startLines) ==
    IF startLines = <<>> THEN Infinity
    ELSE CHOOSE l \in {startLines[i] : i \in 1..Len(startLines)} :
             \A i \in 1..Len(startLines) : l <= startLines[i]

\* history: lowest      the lowest starting line of the edits since the last completed pass
\*          passLowest  lowest as the pass of this step found it
\*          changed     the lowest starting line of the changes notified in this step
Remember(new, startLines) ==
    LET low == Min(history.lowest, LowestOf(startLines))
    IN [lowest |-> IF Completed(new) THEN Infinity ELSE low,
        passLowest |-> IF Ran(new) THEN low ELSE Infinity,
        changed |-> LowestOf(startLines)]

Become(new, startLines) ==
    /\ settings' = new.settings
    /\ text' = new.text
    /\ visibleTextEditors' = new.visibleTextEditors
    /\ lines' = new.lines
    /\ lineToUpdateWhenTimeoutEnds' = new.lineToUpdateWhenTimeoutEnds
    /\ updateDecorationTimeout' = new.updateDecorationTimeout
    /\ timers' = new.timers
    /\ decorations' = new.decorations
    /\ lastPass' = new.lastPass
    /\ history' = Remember(new, startLines)
    /\ UNCHANGED <<configuration, tokenArray, cursor>>

\* what prism.tokenize may do in a call of `handler': nothing to choose when the
\* call does not reach the tokenizer
Tokenizer(this, handler) ==
    IF /\ this.visibleTextEditors
       /\ handler = "timeout" \/ (~this.settings.isDisposed /\ this.settings.timeOutLength <= 0)
    THEN {"tokens", "null", "throw"}
    ELSE {"tokens"}

\* the characters typed in the editing session
EditChars == {"(", ")", "\n"}

\* the line of offset p: document.positionAt(p).line
LineAt(t, p) == Cardinality({i \in 1..p : t[i] = "\n"})

\* one content change at every offset of `cursors', the highest offset first
RECURSIVE Descending(_)
Descending(cursors) ==
    IF cursors = {} THEN <<>>
    ELSE LET p == CHOOSE q \in cursors : \A r \in cursors : r <= q
         IN <<p>> \o Descending(cursors \ {p})

\* "insert" types c at the offset, "delete" removes the character after it,
\* "touch" replaces that character by itself
RECURSIVE ApplyChanges(_, _, _, _)
ApplyChanges(t, offsets, kind, c) ==
    IF offsets = <<>> THEN t
    ELSE LET p == Head(offsets)
             edited == CASE kind = "insert" ->
                                SubSeq(t, 1, p) \o <<c>> \o SubSeq(t, p + 1, Len(t))
                         [] kind = "delete" ->
                                SubSeq(t, 1, p) \o SubSeq(t, p + 2, Len(t))
                         [] kind = "touch" -> t
         IN ApplyChanges(edited, Tail(offsets), kind, c)

\* the edits: [kind, c, cursors]; an edit notification may carry no change at all
Edits ==
    {[kind |-> "touch", c |-> "", cursors |-> {}]}
    \cup {[kind |-> kind, c |-> c, cursors |-> S] :
            kind \in {"insert"}, c \in EditChars,
            S \in {T \in SUBSET (0..Len(text)) :
                      /\ T # {}
                      /\ Cardinality(T) <= MaxCursors
                      /\ Len(text) + Cardinality(T) <= MaxText}}
    \cup {[kind |-> kind, c |-> "", cursors |-> S] :
            kind \in {"delete", "touch"},
            S \in {T \in SUBSET (0..(Len(text) - 1)) :
                      T # {} /\ Cardinality(T) <= MaxCursors}}

\* the user edits the document and vscode notifies the session
DidChangeTextDocument ==
    \E edit \in Edits :
        LET offsets == Descending(edit.cursors)
            contentChanges == [i \in 1..Len(offsets) |-> LineAt(text, offsets[i])]
            edited == [This EXCEPT !.text = ApplyChanges(text, offsets, edit.kind, edit.c)]
        IN \E tokenizer \in Tokenizer(This, "edit") :
            /\ settings.ok
            /\ Become(onDidChangeTextDocument(edited, contentChanges, tokenizer),
                      contentChanges)

\* the extension asks for a refresh (triggerUpdateDecorations is public)
TriggerUpdateDecorations ==
    \E tokenizer \in Tokenizer(This, "trigger") :
        /\ settings.ok
        /\ Become(triggerUpdateDecorations(This, tokenizer), <<>>)

\* the pending timer `handle' fires: the callback is updateDecorations itself
TimerFires(handle) ==
    /\ handle \in timers
    /\ \E tokenizer \in Tokenizer(This, "timeout") :
          Become(updateDecorations([This EXCEPT !.timers = @ \ {handle}], tokenizer),
                 <<>>)

TimeoutFires == \E handle \in timers : TimerFires(handle)

Dispose ==
    /\ settings.ok
    /\ Become(dispose(This), <<>>)

\* an editor showing the document becomes visible, or the last one is hidden
VisibleTextEditorsChange ==
    /\ settings.ok
    /\ Become([This EXCEPT !.visibleTextEditors = ~@], <<>>)

\* ---- configurations ---------------------------------------------------------------
C0 == Str(<<"C0">>)
C1 == Str(<<"C1">>)
X == Str(<<"X">>)
Round == Str(<<"(", ")">>)
Square == Arr(<<Str(<<"[">>), Str(<<"]">>)>>)

Configuration(colorMode, unique, cycle, timeOut, consecutive, independent) ==
    [colorMode |-> colorMode, forceUniqueOpeningColor |-> unique,
     forceIterationColorCycle |-> cycle, timeOut |-> timeOut,
     consecutivePairColors |-> consecutive, independentPairColors |-> independent]

DefaultIndependent == Arr(<<Arr(<<Round, Arr(<<C0, C1>>), X>>)>>)

\* the sessions: one pair, two colors; without a debounce delay, the orphan color
\* being a color or "", and with a debounce delay
SessionConfigurations ==
    {Configuration(Str(<<"Consecutive">>), Bool(FALSE), Bool(FALSE), Num(session[1]),
                   Arr(<<Round, Arr(<<C0, C1>>), session[2]>>), DefaultIndependent) :
        session \in {<<0, X>>, <<0, Str(<<>>)>>, <<200, X>>}}

Texts(chars, n) == UNION {[1..k -> chars] : k \in 0..n}

\* the position mapper is not run on its own
Unmapped == [lineIndex |-> -1, charIndex |-> -1, positions |-> <<>>]
NoTokens == tokenArray = <<>> /\ cursor = Unmapped

NoHistory == [lowest |-> Infinity, passLowest |-> Infinity, changed |-> Infinity]

\* a mutant: the marker starts at Infinity
ConstructedNothingPending ==
    /\ lines = <<>>
    /\ lineToUpdateWhenTimeoutEnds = Infinity
    /\ updateDecorationTimeout = 0
    /\ timers = {}
    /\ decorations = <<>>
    /\ lastPass = NoPass
    /\ history = NoHistory

\* a new DocumentDecoration(document, settings)
Constructed ==
    /\ lines = <<>>
    /\ lineToUpdateWhenTimeoutEnds = 0
    /\ updateDecorationTimeout = 0
    /\ timers = {}
    /\ decorations = <<>>
    /\ lastPass = NoPass
    /\ history = NoHistory

Init ==
    /\ configuration \in SessionConfigurations
    /\ settings = Constructor(configuration)
    /\ text \in Texts(EditChars, MaxText)
    /\ visibleTextEditors \in BOOLEAN
    /\ Constructed
    /\ NoTokens

Next ==
    \/ DidChangeTextDocument
    \/ TriggerUpdateDecorations
    \/ TimeoutFires
    \/ Dispose
    \/ VisibleTextEditorsChange

Spec == Init /\ [][Next]_vars

\* ---- the debounce with a fair timer ----------------------------------------------
\* The sessions of the liveness of the debounce: an editor shows the document all
\* along and prism.tokenize returns its array in every pass; the settings are not
\* disposed. A timer of the host that stays pending fires (setTimeout's contract).
LiveConfigurations ==
    {Configuration(Str(<<"Consecutive">>), Bool(FALSE), Bool(FALSE), Num(timeOut),
                   Arr(<<Round, Arr(<<C0, C1>>), X>>), DefaultIndependent) :
        timeOut \in {0, 200}}

InitLive ==
    /\ configuration \in LiveConfigurations
    /\ settings = Constructor(configuration)
    /\ text \in Texts(EditChars, MaxText)
    /\ visibleTextEditors = TRUE
    /\ Constructed
    /\ NoTokens

\* the tokenizer succeeds: a pass that runs completes
Succeeds == lastPass'.outcome \in {"none", "completed"}

NextLive ==
    \/ DidChangeTextDocument /\ Succeeds
    \/ TriggerUpdateDecorations /\ Succeeds
    \/ TimeoutFires /\ Succeeds

\* the host's side of setTimeout: the pending timer `handle' expires, it leaves
\* the pending set and no other timer enters it. In NextLive the step that does
\* so is TimerFires(handle), the callback's run.
Expires(handle) ==
    /\ handle \in timers
    /\ timers' = timers \ {handle}

SpecLive ==
    /\ InitLive
    /\ [][NextLive]_vars
    /\ \A handle \in 1..2 : WF_timers(Expires(handle))

\* ---- one pass over a document: the matcher's runs -------------------------------
C2 == Str(<<"C2">>)
Y == Str(<<"Y">>)
MatchChars == {"(", ")", "[", "]", ";", "\n"}

\* two pair definitions: Consecutive with a shared palette of one or two colors
\* and every choice of the two flags, Independent with a palette per definition
MatchConfigurations ==
    {Configuration(Str(<<"Consecutive">>), Bool(unique), Bool(cycle), Num(0),
                   Arr(<<Round, Square, Arr(palette), X>>), DefaultIndependent) :
        unique \in BOOLEAN, cycle \in BOOLEAN, palette \in {<<C0>>, <<C0, C1>>}}
    \cup
    {Configuration(Str(<<"Independent">>), Bool(FALSE), Bool(FALSE), Num(0),
                   Arr(<<Round, Arr(<<C0, C1>>), X>>),
                   Arr(<<Arr(<<Round, Arr(<<C0, C1>>), X>>),
                         Arr(<<Square, Arr(<<C2>>), Y>>)>>))}

InitMatch ==
    /\ configuration \in MatchConfigurations
    /\ settings = Constructor(configuration)
    /\ text \in Texts(MatchChars, MatchLen)
    /\ visibleTextEditors = TRUE
    /\ Constructed
    /\ NoTokens

\* the first refresh of a document just opened
FirstRefresh ==
    /\ lastPass.outcome = "none"
    /\ lines = <<>>
    /\ Become(triggerUpdateDecorations(This, "tokens"), <<>>)

SpecMatch == InitMatch /\ [][FirstRefresh]_vars

\* ---- construction of the settings ---------------------------------------------------
Unconstructed ==
    [ok |-> FALSE, error |-> [field |-> "", index |-> -1, message |-> "not constructed"]]

PairValues ==
    {Round, Square, Str(<<"(">>), Arr(<<Str(<<>>), Str(<<")">>)>>),
     Arr(<<Str(<<"(">>), Str(<<")">>), Str(<<"x">>)>>), Num(7), Arr(<<Num(1), Num(2)>>)}
PaletteValues == {Arr(<<C0, C1>>), Arr(<<>>), C0, Arr(<<Num(5)>>)}
OrphanValues == {X, Str(<<>>), Num(0)}

RawConfigurations ==
    {Configuration(Str(<<colorMode>>), Bool(FALSE), Bool(TRUE), Num(0),
                   Arr(<<pair, palette, orphanColor>>),
                   Arr(<<Arr(<<pair, palette, orphanColor>>)>>)) :
        colorMode \in {"Consecutive", "Independent"},
        pair \in PairValues, palette \in PaletteValues, orphanColor \in OrphanValues}
    \cup
    {Configuration(Str(<<colorMode>>), Bool(FALSE), Bool(FALSE), Num(200),
                   consecutive, independent) :
        colorMode \in {"Consecutive", "Independent"},
        consecutive \in {Arr(<<Arr(<<C0>>), X>>), C0, Arr(<<Round, Num(7), Arr(<<C0>>), X>>)},
        independent \in {Arr(<<C0>>), C0, Arr(<<Arr(<<Round, Arr(<<C0>>), X>>), Arr(<<Round>>)>>)}}
    \cup
    {Configuration(colorMode, unique, cycle, timeOut,
                   Arr(<<Round, Square, Arr(<<C0, C1>>), X>>), DefaultIndependent) :
        colorMode \in {Str(<<"Consecutive">>), Str(<<"Independent">>), Str(<<"0">>), Undefined},
        unique \in {Bool(TRUE), Undefined}, cycle \in {Bool(FALSE), Str(<<"no">>)},
        timeOut \in {Num(0), Str(<<"200">>)}}

InitSettings ==
    /\ configuration \in RawConfigurations
    /\ settings = Unconstructed
    /\ text = <<>>
    /\ visibleTextEditors = TRUE
    /\ Constructed
    /\ NoTokens

\* new Settings(languageID, gutterIcons, documentUri)
Construct ==
    /\ settings = Unconstructed
    /\ settings' = Constructor(configuration)
    /\ UNCHANGED <<configuration, text, visibleTextEditors, lines,
                   lineToUpdateWhenTimeoutEnds, updateDecorationTimeout, timers, decorations,
                   lastPass, history, tokenArray, cursor>>

SpecSettings == InitSettings /\ [][Construct]_vars

\* ---- the position mapper on token trees ----------------------------------------------
ParseChars == {"(", "a", "\n"}
ShortTexts == {<<c>> : c \in ParseChars}
LeafTexts == ShortTexts \cup {<<"\n", "a">>, <<"a", "\n">>, <<"(", "(">>}

\* a string, or a Token whose content is a string
LeafTokens(texts) ==
    {Token(type, Str(t)) : type \in {"punctuation", "keyword"}, t \in texts}
Leaves(texts) == {Str(t) : t \in texts} \cup LeafTokens(texts)

Arrays(elements, n) == UNION {[1..k -> elements] : k \in 0..n}

\* a Token whose content is an array, a Token, or a Token whose content is an array
NestedTokens ==
    LET arrays == {Arr(a) : a \in Arrays(Leaves(ShortTexts), MaxTokens)}
    IN {Token("tag", a) : a \in arrays}
       \cup {Token(type, token) : type \in {"tag", "punctuation"},
                                  token \in LeafTokens(ShortTexts)}
       \cup {Token("tag", Token("tag", a)) : a \in arrays}

TokenArrays == Arrays(Leaves(LeafTexts) \cup NestedTokens, MaxTokens)

InitParse ==
    /\ configuration = Configuration(Str(<<"Consecutive">>), Bool(FALSE), Bool(FALSE), Num(0),
                                     Arr(<<Round, Arr(<<C0, C1>>), X>>), DefaultIndependent)
    /\ settings = Constructor(configuration)
    /\ text = <<>>
    /\ visibleTextEditors = TRUE
    /\ lines = <<>>
    /\ lineToUpdateWhenTimeoutEnds \in 0..1
    /\ updateDecorationTimeout = 0
    /\ timers = {}
    /\ decorations = <<>>
    /\ lastPass = NoPass
    /\ history = NoHistory
    /\ tokenArray \in TokenArrays
    /\ cursor = Unmapped

\* this.parseTokenOrStringArray(tokenized, 0, 0, positions)
ParseTokens ==
    /\ cursor = Unmapped
    /\ cursor' = parseTokenOrStringArray(This, tokenArray,
                      [lineIndex |-> 0, charIndex |-> 0, positions |-> <<>>])
    /\ UNCHANGED <<configuration, settings, text, visibleTextEditors, lines,
                   lineToUpdateWhenTimeoutEnds, updateDecorationTimeout, timers,
                   decorations, lastPass, history, tokenArray>>

SpecParse == InitParse /\ [][ParseTokens]_vars

\* ---- the properties ---------------------------------------------------------
RangesOf(calls, color) ==
    IF MapHas(calls, color) THEN MapGet(calls, color) ELSE <<"not set">>

\* the colors of the configuration: every palette color and the orphan color of
\* every pair definition of the settings
ConfiguredColors ==
    UNION {{settings.bracketPairs[d].colors[i] :
                i \in 1..Len(settings.bracketPairs[d].colors)}
           \cup {settings.bracketPairs[d].orphanColor} :
           d \in 1..Len(settings.bracketPairs)}

\* C1: a pass leaves every cached line below L, the lowest starting line of the
\* edits since the last completed pass, exactly as it was: same entry, same
\* occurrences, same color ranges.
C1_LinesBelowEditUnchanged ==
    [][lastPass'.outcome # "none" =>
          \A i \in 1..Len(lines) :
              i - 1 < history'.passLowest => (i <= Len(lines') /\ lines'[i] = lines[i])]_vars

\* a pass from line 1 has completed: line 0 survived it with its bracket, line 1 was rebuilt
C1_Witness ==
    /\ lastPass.outcome = "completed"
    /\ lastPass.from = 1
    /\ history.passLowest = 1
    /\ Len(lines) = 2
    /\ lines[1].brackets # <<>>
    /\ lines[2].brackets # <<>>

\* C2: a pass that completes right after a completed pass, on the same text and
\* settings, makes the same setDecorations calls: same colors, same ranges, same order.
C2_SamePassSameCalls ==
    [][(/\ lastPass.outcome = "completed"
        /\ lastPass'.outcome = "completed"
        /\ text' = text
        /\ settings' = settings) => lastPass'.calls = lastPass.calls]_vars

\* a pass that started with the marker at "no pending work" has completed over
\* cached lines on two lines that share a color
C2_Witness ==
    /\ lastPass.outcome = "completed"
    /\ lastPass.from = Infinity
    /\ Len(lines) = 2
    /\ \E i \in 1..Len(lastPass.calls) : Len(lastPass.calls[i][2]) = 2

\* C3 as claimed: a completed pass hands the renderer an entry for every
\* configured color.
C3_EveryConfiguredColorSet ==
    (lastPass.outcome = "completed" /\ ~settings.isDisposed) =>
        \A color \in ConfiguredColors : MapHas(lastPass.calls, color)

\* C3 as amended: a completed pass hands the renderer an entry for every color
\* of settings.bracketDecorations except the color "", an empty list when no
\* line has a range of that color; until dispose clears it, bracketDecorations
\* holds every configured color.
C3_EveryNonEmptyColorSet ==
    /\ (settings.ok /\ ~settings.isDisposed) =>
           MapKeys(settings.bracketDecorations) = ConfiguredColors
    /\ lastPass.outcome = "completed" =>
           /\ MapKeys(lastPass.calls) = MapKeys(settings.bracketDecorations) \ {Str(<<>>)}
           /\ \A color \in MapKeys(lastPass.calls) :
                  (\A i \in 1..Len(lines) : ~MapHas(lines[i].colorRanges, color))
                      => MapGet(lastPass.calls, color) = <<>>

\* a completed pass in which one color got ranges and another configured color got none
C3_Witness ==
    /\ lastPass.outcome = "completed"
    /\ \E i, j \in 1..Len(lastPass.calls) :
           lastPass.calls[i][2] = <<>> /\ lastPass.calls[j][2] # <<>>

\* C4: a pass in which the tokenizer fails (throws, or returns no result) returns
\* without a setDecorations call, and what the editor shows stays as it was.
C4_FailureKeepsDecorations ==
    [][lastPass'.outcome \in {"null", "throw"} =>
          (lastPass'.calls = <<>> /\ decorations' = decorations)]_vars

\* the tokenizer has thrown in a pass from line 0 while the editor shows brackets
C4_Witness ==
    /\ lastPass.outcome = "throw"
    /\ lines = <<>>
    /\ \E i \in 1..Len(decorations) : decorations[i][2] # <<>>

\* C5 as claimed: a pass over an empty document, or one in which the tokenizer
\* fails, yields a mapping in which every configured color maps to an empty list.
C5_EmptyOrFailedAllEmpty ==
    (\/ lastPass.outcome \in {"null", "throw"}
     \/ (lastPass.outcome = "completed" /\ text = <<>> /\ ~settings.isDisposed)) =>
        \A color \in ConfiguredColors \ {Str(<<>>)} : RangesOf(lastPass.calls, color) = <<>>

\* C5 as amended: a completed pass over an empty document sets every color of
\* settings.bracketDecorations other than "" to an empty list; a pass in which
\* the tokenizer fails sets no color at all.
C5_EmptyAllEmptyFailedNone ==
    /\ (lastPass.outcome = "completed" /\ text = <<>>) =>
           /\ MapKeys(lastPass.calls) = MapKeys(settings.bracketDecorations) \ {Str(<<>>)}
           /\ \A i \in 1..Len(lastPass.calls) : lastPass.calls[i][2] = <<>>
    /\ lastPass.outcome \in {"null", "throw"} => lastPass.calls = <<>>

\* a pass has completed over a document that an edit on line 0 emptied
C5_Witness ==
    /\ lastPass.outcome = "completed"
    /\ text = <<>>
    /\ history.passLowest = 0
    /\ lastPass.calls # <<>>

\* ---- the matcher's results --------------------------------------------------------
\* every bracket occurrence of the cached lines, and its place <<line, column>>
Occurrences == UNION {{lines[i].brackets[k] : k \in 1..Len(lines[i].brackets)} :
                         i \in 1..Len(lines)}
PlaceOf(b) == <<b.range.line, b.range.start>>
Before(a, b) ==
    \/ a.range.line < b.range.line
    \/ a.range.line = b.range.line /\ a.range.start < b.range.start

\* the close brackets that popped the open bracket b
ClosersOf(b) == {c \in Occurrences : c.role = "close" /\ c.partner = PlaceOf(b)}

\* matched to exactly one occurrence of the same definition with the opposite role
Matched(b) ==
    IF b.role = "open"
    THEN /\ Cardinality(ClosersOf(b)) = 1
         /\ \A c \in ClosersOf(b) : c.definition = b.definition
    ELSE Cardinality({o \in Occurrences : /\ PlaceOf(o) = b.partner
                                          /\ o.role = "open"
                                          /\ o.definition = b.definition}) = 1

\* classified orphan: it carries the orphan color of its definition as an orphan
Orphan(b) == b.orphan /\ b.color = settings.bracketPairs[b.definition].orphanColor

\* the open brackets no close bracket has popped: what the stacks hold at the end
LeftOpen == {b \in Occurrences : b.role = "open" /\ ClosersOf(b) = {}}

\* the size of the shared stack right after the open bracket b was pushed, counted
\* from the matches alone
DepthAt(b) ==
    1 + Cardinality({o \in Occurrences :
            /\ o.role = "open"
            /\ Before(o, b)
            /\ \A c \in ClosersOf(o) : ~Before(c, b)})

\* C6 as claimed: after a completed pass every occurrence is either matched to
\* exactly one occurrence of its definition with the opposite role, or an
\* orphan, never both and never neither.
C6_MatchedOrOrphan ==
    lastPass.outcome = "completed" =>
        \A b \in Occurrences : Matched(b) # Orphan(b)

\* the example of C7: "(()" with the palette [C0, C1] and the orphan color X has
\* the "(" at column 0 under X, the "(" at column 1 and the ")" at column 2 under C1
SweepExample ==
    (/\ lastPass.outcome = "completed"
     /\ text = <<"(", "(", ")">>
     /\ configuration.colorMode = Str(<<"Consecutive">>)
     /\ settings.bracketPairs[1].colors = <<C0, C1>>) =>
        /\ RangesOf(lastPass.calls, X) = <<[line |-> 0, start |-> 0, end |-> 1]>>
        /\ RangesOf(lastPass.calls, C1) = <<[line |-> 0, start |-> 1, end |-> 2],
                                            [line |-> 0, start |-> 2, end |-> 3]>>

\* C7 as claimed: after a completed pass every open bracket left on a stack is
\* handed to the renderer under its definition's orphan color, and no longer
\* under its palette color, as in the example.
C7_LeftOpenSweptToOrphan ==
    /\ SweepExample
    /\ lastPass.outcome = "completed" =>
           \A b \in LeftOpen :
               \A i \in 1..Len(lastPass.calls) :
                   (\E k \in 1..Len(lastPass.calls[i][2]) : lastPass.calls[i][2][k] = b.range)
                       <=> lastPass.calls[i][1]
                               = settings.bracketPairs[b.definition].orphanColor

\* the palette the Consecutive configuration shares among its pairs
SharedPalette ==
    At(configuration.consecutivePairColors,
       Len(configuration.consecutivePairColors.v) - 2).v

PlainConsecutive ==
    /\ configuration.colorMode = Str(<<"Consecutive">>)
    /\ configuration.forceUniqueOpeningColor = Bool(FALSE)
    /\ configuration.forceIterationColorCycle = Bool(FALSE)

\* C8: Consecutive mode, both flags false: an open bracket pushed at depth d gets
\* the color palette[(d - 1) mod P] of the shared palette, whatever its definition.
C8_OpenColorByDepth ==
    (lastPass.outcome = "completed" /\ PlainConsecutive) =>
        \A b \in Occurrences :
            b.role = "open" =>
                b.color = SharedPalette[((DepthAt(b) - 1) % Len(SharedPalette)) + 1]

\* brackets of both definitions are open and the third level wraps around a
\* palette of two colors
C8_Witness ==
    /\ lastPass.outcome = "completed"
    /\ PlainConsecutive
    /\ Len(SharedPalette) = 2
    /\ \E a, b \in Occurrences :
           /\ a.role = "open" /\ b.role = "open"
           /\ a.definition # b.definition
           /\ DepthAt(b) = 3

\* the document with every bracket of the other definitions replaced by ";"
Project(t, definition) ==
    [i \in 1..Len(t) |->
        IF ResolveDefinition(settings, <<t[i]>>) \in {0, definition} THEN t[i] ELSE ";"]

\* the cache a first pass over the document t builds
FreshLines(t) ==
    updateDecorations([This EXCEPT !.text = t, !.lines = <<>>,
                                   !.lineToUpdateWhenTimeoutEnds = 0,
                                   !.visibleTextEditors = TRUE], "tokens").lines

\* the brackets of one definition, in document order, with their colors,
\* partners and orphan marks
RECURSIVE BracketsOf(_, _)
BracketsOf(lines_, definition) ==
    IF lines_ = <<>> THEN <<>>
    ELSE SelectSeq(Head(lines_).brackets, LAMBDA b : b.definition = definition)
             \o BracketsOf(Tail(lines_), definition)

\* C9: Independent mode, two definitions without a common literal: the brackets
\* of one definition are matched, colored and orphaned exactly as if the
\* brackets of the other were not brackets at all, so no close bracket pops or
\* changes the other definition's stack.
C9_StacksIndependent ==
    (lastPass.outcome = "completed" /\ configuration.colorMode = Str(<<"Independent">>)) =>
        \A definition \in 1..Len(settings.bracketPairs) :
            BracketsOf(lines, definition)
                = BracketsOf(FreshLines(Project(text, definition)), definition)

\* a close bracket arrived while an open bracket of the other definition was
\* the latest one open, and was matched to the open bracket of its own definition
C9_Witness ==
    /\ lastPass.outcome = "completed"
    /\ configuration.colorMode = Str(<<"Independent">>)
    /\ \E c, o \in Occurrences :
           /\ c.role = "close" /\ ~c.orphan
           /\ o.role = "open" /\ o.definition # c.definition
           /\ Before(o, c) /\ c.partner # <<>>
           /\ \E own \in Occurrences : PlaceOf(own) = c.partner /\ Before(own, o)

\* ---- the constructor's validation ----------------------------------------------------
\* a pair value: a string or an array of exactly two non-empty strings
GoodPair(pair) ==
    /\ IsString(pair) \/ IsArray(pair)
    /\ Len(pair.v) = 2
    /\ \A i \in 0..1 : IsString(At(pair, i)) /\ At(pair, i).v # <<>>

GoodPalette(colors) ==
    /\ IsArray(colors)
    /\ colors.v # <<>>
    /\ \A i \in 1..Len(colors.v) : IsString(colors.v[i])

WellFormed(conf) ==
    /\ conf.forceUniqueOpeningColor.t = "boolean"
    /\ conf.forceIterationColorCycle.t = "boolean"
    /\ conf.colorMode \in {Str(<<"Consecutive">>), Str(<<"Independent">>)}
    /\ conf.timeOut.t = "number"
    /\ IF conf.colorMode = Str(<<"Consecutive">>)
       THEN LET cs == conf.consecutivePairColors
                n == Len(cs.v)
            IN /\ IsArray(cs)
               /\ n >= 3
               /\ IsString(At(cs, n - 1))
               /\ GoodPalette(At(cs, n - 2))
               /\ \A i \in 0..(n - 3) : GoodPair(At(cs, i))
       ELSE LET is == conf.independentPairColors
            IN /\ IsArray(is)
               /\ \A i \in 0..(Len(is.v) - 1) :
                      /\ IsArray(At(is, i))
                      /\ GoodPair(At(At(is, i), 0))
                      /\ GoodPalette(At(At(is, i), 1))
                      /\ IsString(At(At(is, i), 2))

ConfigurationFields ==
    {"forceUniqueOpeningColor", "forceIterationColorCycle", "colorMode", "timeOutLength",
     "consecutivePairColors", "independentPairColors"}

\* C10 as claimed: a configuration with an empty literal, an empty palette, a
\* wrong element count or a wrongly typed field yields no Settings instance:
\* construction ends in an error that names the violated field.
C10_InvalidNeverConstructs ==
    (settings # Unconstructed /\ ~WellFormed(configuration)) =>
        (~settings.ok /\ settings.error.field \in ConfigurationFields)

\* C11: on every edit notification the marker becomes the minimum of its value and
\* the starting lines of all the changes notified: it is that minimum after a step
\* in which no pass completed, and the pass of the step, if any, started from it;
\* so between two completed passes the marker never increases.
C11_MarkerIsMinimum ==
    [][/\ lastPass'.outcome # "completed" =>
            /\ lineToUpdateWhenTimeoutEnds' =
                   Min(lineToUpdateWhenTimeoutEnds, history'.changed)
            /\ lineToUpdateWhenTimeoutEnds' <= lineToUpdateWhenTimeoutEnds
       /\ lastPass'.outcome # "none" =>
            lastPass'.from = Min(lineToUpdateWhenTimeoutEnds, history'.changed)]_vars

\* an edit on a line above an earlier edit's line: the marker stays at the lower one
C11_Witness ==
    /\ lastPass.outcome = "none"
    /\ history.changed < Infinity
    /\ 0 < lineToUpdateWhenTimeoutEnds
    /\ lineToUpdateWhenTimeoutEnds < history.changed

\* the steps of the debounce: a timer is set while another is pending (an edit or
\* a trigger restarts it), and a pending timer fires
TimerRestarted == timers # {} /\ timers' # {} /\ updateDecorationTimeout' # updateDecorationTimeout
TimerFired == \E handle \in timers : timers' = timers \ {handle}

\* C12 as stated: with a positive delay, an edit while a timer is pending cancels
\* it and sets a new one and lowers the marker only by its own changes; at most
\* one timer is pending; the pass of the firing timer is the only one, and it
\* starts from the lowest starting line of the edits that arrived before it.
C12_OnePassFromLowestEdit ==
    [][settings.ok /\ settings.timeOutLength > 0 =>
          /\ Cardinality(timers') <= 1
          /\ TimerRestarted =>
                /\ timers' = {updateDecorationTimeout'}
                /\ updateDecorationTimeout \notin timers'
                /\ lastPass'.outcome = "none"
                /\ lineToUpdateWhenTimeoutEnds' =
                       Min(lineToUpdateWhenTimeoutEnds, history'.changed)
          /\ TimerFired =>
                /\ timers' = {}
                /\ lastPass'.outcome # "none"
                /\ history'.passLowest < Infinity =>
                       lastPass'.from = history'.passLowest]_vars

\* C12, amended: the pass of the firing timer starts from the marker, which is the
\* minimum of its value before the edits and of their starting lines: no higher
\* than the lowest starting line of the edits since the last completed pass.
C12_OnePassFromMarker ==
    [][settings.ok /\ settings.timeOutLength > 0 =>
          /\ Cardinality(timers') <= 1
          /\ TimerRestarted =>
                /\ timers' = {updateDecorationTimeout'}
                /\ updateDecorationTimeout \notin timers'
                /\ lastPass'.outcome = "none"
                /\ lineToUpdateWhenTimeoutEnds' =
                       Min(lineToUpdateWhenTimeoutEnds, history'.changed)
          /\ TimerFired =>
                /\ timers' = {}
                /\ lastPass'.outcome # "none"
                /\ lastPass'.from = lineToUpdateWhenTimeoutEnds
                /\ lastPass'.from <= history'.passLowest]_vars

\* an edit has just restarted a pending timer, on a line above an earlier edit's
C12_Witness ==
    /\ settings.ok /\ settings.timeOutLength > 0
    /\ updateDecorationTimeout = 2 /\ timers = {2}
    /\ history.changed < Infinity
    /\ 0 < lineToUpdateWhenTimeoutEnds
    /\ lineToUpdateWhenTimeoutEnds < history.changed

\* C13: a pass that completes truncates the cache, tokenizes, maps the positions,
\* updates the lines, aggregates, renders and only then resets the marker: the
\* marker has its value of before the pass at every step but the last, where it
\* becomes Infinity; the lines below that value are the ones cached before, and
\* the renderer gets the aggregate of the lines as the pass left them.
PassSteps == <<"truncate", "tokenize", "map", "update", "aggregate", "render", "reset">>

C13_StepsInOrder ==
    [][lastPass'.outcome = "completed" =>
          LET steps == lastPass'.steps
          IN /\ [i \in 1..Len(steps) |-> steps[i][1]] = PassSteps
             /\ \A i \in 1..(Len(steps) - 1) :
                    steps[i][2] = Min(lineToUpdateWhenTimeoutEnds, history'.changed)
             /\ steps[Len(steps)][2] = Infinity
             /\ lineToUpdateWhenTimeoutEnds' = Infinity
             /\ \A i \in 1..Len(lines) :
                    i - 1 < lastPass'.from => i <= Len(lines') /\ lines'[i] = lines[i]
             /\ \A i \in 1..Len(lines') :
                    i - 1 >= lastPass'.from =>
                        lines'[i].brackets = FreshLines(text')[i].brackets
             /\ lastPass'.calls =
                    setDecorationsCalls(settings'.bracketDecorations,
                                        reduceLines(<<>>, lines'))]_vars

\* a completed pass that kept a cached line and rebuilt a line with a bracket
C13_Witness ==
    /\ lastPass.outcome = "completed"
    /\ 0 < lastPass.from /\ lastPass.from < Len(lines)
    /\ lines[Len(lines)].brackets # <<>>

\* a session in which no edit was notified and no pass has run
NewSession ==
    /\ settings.ok /\ ~settings.isDisposed
    /\ lines = <<>> /\ decorations = <<>>
    /\ updateDecorationTimeout = 0
    /\ lastPass = NoPass /\ history = NoHistory

\* a step whose pass got past the check of the editors, with no change notified
PassWithoutEdit ==
    /\ lastPass'.outcome \in {"completed", "null", "throw"}
    /\ history'.changed = Infinity

\* C14 as stated: the marker of a new session is Infinity, and a pass before any
\* edit starts from Infinity, removes no cached line and analyses no line.
C14_NewSessionNothingPending ==
    [][/\ NewSession => lineToUpdateWhenTimeoutEnds = Infinity
       /\ NewSession /\ PassWithoutEdit =>
             lastPass'.from = Infinity /\ lines' = lines]_vars

\* C14, amended: the marker of a new session is 0, and a completed pass before
\* any edit starts from 0 and analyses every line; the marker is Infinity from
\* the end of a completed pass to the next change, and a pass that finds it so
\* leaves the cache as it is.
C14_NewSessionAllPending ==
    [][/\ NewSession => lineToUpdateWhenTimeoutEnds = 0
       /\ NewSession /\ PassWithoutEdit =>
             /\ lastPass'.from = 0
             /\ lastPass'.outcome = "completed" => lines' = FreshLines(text')
       /\ lastPass'.outcome = "completed" => lineToUpdateWhenTimeoutEnds' = Infinity
       /\ lineToUpdateWhenTimeoutEnds = Infinity /\ PassWithoutEdit =>
             lastPass'.from = Infinity /\ lines' = lines]_vars

\* the first pass of a session, before any edit, has analysed two lines
C14_Witness ==
    /\ lastPass.outcome = "completed" /\ lastPass.from = 0
    /\ history = NoHistory
    /\ Len(lines) >= 2 /\ lines[2].brackets # <<>>

\* document.lineCount
LineCount(t) == LineAt(t, Len(t)) + 1

\* C15: the cache has no gaps: the entry at place k is the line of index k; and
\* getLine(i), for every line i of the document, returns the line of index i,
\* leaves the cache as it is when i is below its length, and otherwise grows it
\* to length i + 1, every new line taking its context from the line before it.
C15_CacheHasNoGaps ==
    /\ \A k \in 1..Len(lines) : lines[k].index = k - 1
    /\ \A i \in 0..(LineCount(text) - 1) :
          LET got == getLine(settings, lines, i)
          IN /\ got.lines[got.returned + 1].index = i
             /\ SubSeq(got.lines, 1, Len(lines)) = lines
             /\ i < Len(lines) => got.lines = lines
             /\ i >= Len(lines) =>
                   /\ Len(got.lines) = i + 1
                   /\ \A k \in (Len(lines) + 1)..(i + 1) :
                         /\ got.lines[k].index = k - 1
                         /\ got.lines[k].brackets = <<>>
                         /\ got.lines[k].context =
                               IF k = 1 THEN EmptyContext(settings)
                               ELSE got.lines[k - 1].context

\* a pass has built three lines to reach the only bracket of the document
C15_Witness ==
    /\ lastPass.outcome = "completed"
    /\ Len(lines) = 3
    /\ lines[1].brackets = <<>> /\ lines[2].brackets = <<>> /\ lines[3].brackets # <<>>

\* a line that starts from the context `carried' and is given `brackets' in turn
RECURSIVE Replay(_, _)
Replay(line, brackets) ==
    IF brackets = <<>> THEN line
    ELSE Replay(addBracket(settings, line, [range |-> Head(brackets).range,
                                            content |-> Head(brackets).content]),
                Tail(brackets))

\* C16: at the end of every completed pass, every cached line i > 0 is what its
\* brackets, added in the order of their columns, make of a line created from the
\* final context of line i - 1 (line 0: from the empty context): what was carried
\* into line i is what line i - 1 carries out.
C16_CarriedInIsCarriedOut ==
    lastPass.outcome = "completed" =>
        \A i \in 1..Len(lines) :
            /\ lines[i] = Replay(TextLine(i - 1, IF i = 1 THEN EmptyContext(settings)
                                                 ELSE lines[i - 1].context),
                                 lines[i].brackets)
            /\ \A j, k \in 1..Len(lines[i].brackets) :
                  j < k => lines[i].brackets[j].range.start < lines[i].brackets[k].range.start

\* a pass from line 1 has closed, on line 1, a bracket opened on the cached line 0
C16_Witness ==
    /\ lastPass.outcome = "completed" /\ lastPass.from = 1
    /\ Len(lines) = 2
    /\ \E k \in 1..Len(lines[2].brackets) :
          /\ lines[2].brackets[k].partner # <<>>
          /\ lines[2].brackets[k].partner[1] = 0

\* the leaves of a token tree in order: the text, and the type of the Token that
\* holds it ("string" for a string of an array)
RECURSIVE LeavesOfArray(_)
RECURSIVE LeavesOfToken(_)
LeavesOfToken(token) ==
    IF token.t = "string" THEN <<[text |-> token.v, type |-> "string"]>>
    ELSE IF token.content.t = "string"
    THEN <<[text |-> token.content.v, type |-> token.type]>>
    ELSE IF token.content.t = "array" THEN LeavesOfArray(token.content.v)
    ELSE LeavesOfToken(token.content)

LeavesOfArray(array) ==
    IF array = <<>> THEN <<>>
    ELSE LeavesOfToken(Head(array)) \o LeavesOfArray(Tail(array))

\* the text of the first k leaves
RECURSIVE TextBefore(_, _)
TextBefore(leaves, k) ==
    IF k = 0 THEN <<>> ELSE TextBefore(leaves, k - 1) \o leaves[k].text

\* the position of the end of a text: its line breaks, and what follows the last
EndOf(t) ==
    LET breaks == {i \in 1..Len(t) : t[i] = "\n"}
        last == IF breaks = {} THEN 0 ELSE CHOOSE i \in breaks : \A j \in breaks : j <= i
    IN [line |-> Cardinality(breaks), column |-> Len(t) - last]

\* the occurrences of the first k leaves: the punctuation leaves that hold a
\* bracket and begin on a line at or above the marker
RECURSIVE OccurrencesOf(_, _)
OccurrencesOf(leaves, k) ==
    IF k = 0 THEN <<>>
    ELSE LET begin == EndOf(TextBefore(leaves, k - 1))
             leaf == leaves[k]
         IN OccurrencesOf(leaves, k - 1) \o
            (IF /\ leaf.type = "punctuation"
                /\ begin.line >= lineToUpdateWhenTimeoutEnds
                /\ \E i \in 1..Len(leaf.text) : leaf.text[i] \in {"(", ")"}
             THEN <<[range |-> [line |-> begin.line, start |-> begin.column,
                                end |-> begin.column + Len(leaf.text)],
                     content |-> leaf.text]>>
             ELSE <<>>)

\* C17: over any token tree the final cursor is the position of the end of the
\* concatenated leaf text (the line advanced by the line breaks, the column the
\* length of what follows the last one); every occurrence begins where its
\* punctuation leaf begins and ends at that column plus the leaf's length; the
\* occurrences are in document order.
C17_PositionsOfLeaves ==
    cursor # Unmapped =>
        LET leaves == LeavesOfArray(tokenArray)
            end == EndOf(TextBefore(leaves, Len(leaves)))
            positions == cursor.positions
        IN /\ cursor.lineIndex = end.line
           /\ cursor.charIndex = end.column
           /\ positions = OccurrencesOf(leaves, Len(leaves))
           /\ \A j, k \in 1..Len(positions) :
                 j < k =>
                   \/ positions[j].range.line < positions[k].range.line
                   \/ /\ positions[j].range.line = positions[k].range.line
                      /\ positions[j].range.start < positions[k].range.start

\* a bracket in a nested token, after a line break and a character
C17_Witness ==
    /\ cursor # Unmapped
    /\ \E k \in 1..Len(tokenArray) :
          tokenArray[k].t = "token" /\ tokenArray[k].content.t # "string"
    /\ \E k \in 1..Len(cursor.positions) :
          cursor.positions[k].range.line = 1 /\ cursor.positions[k].range.start = 1

Aborted(pass) == pass.outcome \in {"noEditors", "null", "throw"}

\* C18: a pass that aborts (no visible editor, or the tokenizer fails) leaves the
\* marker at the value it started from; every pass starts from a line no higher
\* than the marker was before the step, and the marker does not rise in a step
\* without a completed pass: so the next pass starts no higher than the aborted
\* one. The marker becomes Infinity only in a step whose pass completed.
C18_AbortKeepsMarker ==
    [][/\ Aborted(lastPass') =>
             /\ lineToUpdateWhenTimeoutEnds' = lastPass'.from
             /\ lineToUpdateWhenTimeoutEnds' <= lineToUpdateWhenTimeoutEnds
       /\ lastPass'.outcome # "none" => lastPass'.from <= lineToUpdateWhenTimeoutEnds
       /\ lastPass'.outcome # "completed" =>
             lineToUpdateWhenTimeoutEnds' <= lineToUpdateWhenTimeoutEnds
       /\ Aborted(lastPass) /\ lastPass'.outcome # "none" =>
             lastPass'.from <= lastPass.from
       /\ lineToUpdateWhenTimeoutEnds # Infinity /\ lineToUpdateWhenTimeoutEnds' = Infinity =>
             lastPass'.outcome = "completed"]_vars

\* the tokenizer has just failed in a pass from a line below the first, after a
\* pass had completed
C18_Witness ==
    /\ lastPass.outcome \in {"null", "throw"}
    /\ 0 < lastPass.from /\ lastPass.from < Infinity
    /\ lineToUpdateWhenTimeoutEnds = lastPass.from
    /\ decorations # <<>>

\* a pass from scratch over the current document: empty cache, marker 0
FromScratch ==
    updateDecorations([This EXCEPT !.lines = <<>>, !.lineToUpdateWhenTimeoutEnds = 0,
                                   !.visibleTextEditors = TRUE], "tokens")

\* the places <<line, column>> of the bracket characters of the document
BracketPlaces ==
    {<<EndOf(SubSeq(text, 1, p - 1)).line, EndOf(SubSeq(text, 1, p - 1)).column>> :
        p \in {q \in 1..Len(text) : text[q] \in {"(", ")"}}}

\* the brackets of line i (from 1) of a cache; none when the cache is shorter
BracketsAt(lines_, i) == IF i <= Len(lines_) THEN lines_[i].brackets ELSE <<>>

\* C19: whatever edits, timers and passes came before, a completed pass hands
\* the renderer what a pass from scratch over the same document would, and
\* leaves in every cached line the brackets that line has in the document,
\* each once; at any time the cached lines below the marker (the lowest line
\* edited since they were built) hold what a pass from scratch would put there.
C19_IncrementalIsFromScratch ==
    LET fresh == FromScratch
        HasFreshBrackets(i) ==
            /\ lines[i].brackets = BracketsAt(fresh.lines, i)
            /\ lines[i].colorRanges =
                  IF i <= Len(fresh.lines) THEN fresh.lines[i].colorRanges ELSE <<>>
    IN /\ \A i \in 1..Len(lines) :
             i - 1 < lineToUpdateWhenTimeoutEnds => HasFreshBrackets(i)
       /\ lastPass.outcome = "completed" =>
             /\ lastPass.calls = fresh.lastPass.calls
             /\ Len(fresh.lines) <= Len(lines)
             /\ \A i \in 1..Len(lines) : HasFreshBrackets(i)
             /\ UNION {{<<lines[i].brackets[k].range.line, lines[i].brackets[k].range.start>> :
                           k \in 1..Len(lines[i].brackets)} : i \in 1..Len(lines)}
                   = BracketPlaces
             /\ \A i \in 1..Len(lines) :
                   \A j, k \in 1..Len(lines[i].brackets) :
                       /\ lines[i].brackets[k].range.line = i - 1
                       /\ j # k => lines[i].brackets[j].range # lines[i].brackets[k].range

\* with a debounce delay, a pass from line 1 has completed over a document with
\* brackets on the cached line 0 and on line 1
C19_Witness ==
    /\ settings.ok /\ settings.timeOutLength > 0
    /\ lastPass.outcome = "completed" /\ lastPass.from = 1
    /\ Len(lines) >= 2
    /\ lines[1].brackets # <<>> /\ lines[2].brackets # <<>>

\* C20: once the settings are disposed no pass runs: no step starts a timer or
\* runs a pass, the cache and what the editors show stay as they are, the marker
\* changes only by the changes an edit notifies, and the settings stay as they
\* are (a second dispose disposes nothing).
C20_NoPassAfterDispose ==
    [][settings.ok /\ settings.isDisposed =>
          /\ lastPass'.outcome = "none"
          /\ timers' \subseteq timers
          /\ lines' = lines
          /\ lineToUpdateWhenTimeoutEnds' =
                 Min(lineToUpdateWhenTimeoutEnds, history'.changed)
          /\ decorations' = decorations
          /\ settings' = settings]_vars

\* a step in which a timer is set: by an edit or by a request for a refresh
TimerSet == timers' # {} /\ timers' # timers

\* C21: with a positive delay, a fair timer, a visible editor and a tokenizer
\* that succeeds, if the notifications that restart the timer stop arriving then
\* a pending timer leads to a completed pass that leaves the marker at Infinity
\* and no timer pending; the pass of a firing timer starts at or below the
\* starting line of every edit since the last completed pass. With delay 0 an
\* edit's pass completes within the step of the notification, and no timer is set.
C21_DebounceLeadsToPass ==
    /\ <>[][~TimerSet]_vars =>
          (timers # {} ~> (/\ lastPass.outcome = "completed"
                           /\ lineToUpdateWhenTimeoutEnds = Infinity
                           /\ timers = {}))
    /\ [][/\ TimerFired =>
               /\ lastPass'.outcome = "completed"
               /\ lastPass'.from <= history'.passLowest
               /\ lineToUpdateWhenTimeoutEnds' = Infinity
          /\ settings.timeOutLength <= 0 /\ history'.changed < Infinity =>
               /\ lastPass'.outcome = "completed"
               /\ lastPass'.from <= history'.changed
               /\ lineToUpdateWhenTimeoutEnds' = Infinity
               /\ timers' = {}]_vars

\* with a positive delay, after a completed pass, an edit on line 1 or below has
\* restarted the timer set by an earlier edit
C21_Witness ==
    /\ settings.ok /\ settings.timeOutLength > 0
    /\ visibleTextEditors
    /\ timers = {2}
    /\ decorations # <<>>
    /\ 0 < lineToUpdateWhenTimeoutEnds /\ lineToUpdateWhenTimeoutEnds < Infinity
    /\ history.changed < Infinity

====
